---- MODULE Spec2Model ----
(***************************************************************************)
(* Model of hooks/stalwart.py: the synchronisation of TLSA records from    *)
(* Stalwart to Cloudflare.                                                 *)
(*                                                                         *)
(* Strings are sequences of one-character strings, so that strip, lower,   *)
(* upper, rstrip, split, join, int() and str() are computed, not assumed.  *)
(*                                                                         *)
(* Two specifications share the module:                                    *)
(*   SpecNorm  normalize_tlsa_records applied to a list of raw records,    *)
(*             and applied again to its own output;                        *)
(*   Spec      main from the entry of its try block: the Stalwart fetch,   *)
(*             the zone lookup, the paginated record list, the diff, the   *)
(*             deletes and the adds, against a Cloudflare that holds the   *)
(*             records and answers each call.                              *)
(*                                                                         *)
(* main calls reload_stalwart_certificates_from_env (line 325) before its  *)
(* try block. That function is not modelled; it calls log(), a name the    *)
(* file never defines, so the script as it stands raises NameError there   *)
(* and what Spec describes is the code from line 327 on.                   *)
(***************************************************************************)
EXTENDS Naturals, Sequences, FiniteSets

\* ------------------------------------------------------------------ bounds
\* Longest list of raw records handed to normalize_tlsa_records.
MaxRecords == 2
\* Most entries in the data array of Stalwart's answer.
MaxStalwart == 2
\* Most TLSA records Cloudflare holds at the start.
MaxCf == 2
\* Last page of the record list whose answer may be unsuccessful.
MaxFaultPage == 2

\* ----------------------------------------------------------------- strings
\* The characters the model's strings are made of, in code-point order
\* (Python compares str by code point).
Alphabet ==
    << "\t", " ", ".", "0", "1", "2", "3", "4", "5", "6", "7", "8", "9",
       "A", "B", "F", "L", "S", "T", "X",
       "a", "b", "f", "l", "s", "t", "x" >>

Ord(c) == CHOOSE i \in 1..Len(Alphabet) : Alphabet[i] = c

\* str.isspace for the characters of the alphabet.
IsSpace(c) == c \in {" ", "\t"}

\* str.lower, one character.
LowerChar(c) ==
    CASE c = "A" -> "a" [] c = "B" -> "b" [] c = "F" -> "f" [] c = "L" -> "l"
      [] c = "S" -> "s" [] c = "T" -> "t" [] c = "X" -> "x" [] OTHER -> c

\* str.upper, one character.
UpperChar(c) ==
    CASE c = "a" -> "A" [] c = "b" -> "B" [] c = "f" -> "F" [] c = "l" -> "L"
      [] c = "s" -> "S" [] c = "t" -> "T" [] c = "x" -> "X" [] OTHER -> c

Lower(s) == [i \in 1..Len(s) |-> LowerChar(s[i])]
Upper(s) == [i \in 1..Len(s) |-> UpperChar(s[i])]

RECURSIVE LStrip(_)
LStrip(s) ==
    IF s # << >> /\ IsSpace(Head(s)) THEN LStrip(Tail(s)) ELSE s

RECURSIVE RStrip(_)
RStrip(s) ==
    IF s # << >> /\ IsSpace(s[Len(s)]) THEN RStrip(SubSeq(s, 1, Len(s) - 1)) ELSE s

\* str.strip(): leading and trailing whitespace removed.
Strip(s) == RStrip(LStrip(s))

\* str.rstrip("."): every trailing "." removed.
RECURSIVE RStripDots(_)
RStripDots(s) ==
    IF s # << >> /\ s[Len(s)] = "." THEN RStripDots(SubSeq(s, 1, Len(s) - 1)) ELSE s

\* str.split(): the maximal runs of non-whitespace characters, in order.
RECURSIVE SplitFrom(_, _, _)
SplitFrom(s, cur, acc) ==
    IF s = << >>
    THEN IF cur = << >> THEN acc ELSE Append(acc, cur)
    ELSE IF IsSpace(Head(s))
         THEN SplitFrom(Tail(s), << >>, IF cur = << >> THEN acc ELSE Append(acc, cur))
         ELSE SplitFrom(Tail(s), Append(cur, Head(s)), acc)

Split(s) == SplitFrom(s, << >>, << >>)

\* " ".join(parts)
RECURSIVE Join(_)
Join(parts) ==
    IF parts = << >> THEN << >>
    ELSE IF Len(parts) = 1 THEN parts[1]
    ELSE parts[1] \o << " " >> \o Join(Tail(parts))

\* parts[:n]
Take(parts, n) == SubSeq(parts, 1, IF Len(parts) < n THEN Len(parts) ELSE n)

\* Python's order on str: lexicographic by code point, a prefix first.
RECURSIVE StrLeq(_, _)
StrLeq(a, b) ==
    IF a = << >> THEN TRUE
    ELSE IF b = << >> THEN FALSE
    ELSE IF Head(a) = Head(b) THEN StrLeq(Tail(a), Tail(b))
    ELSE Ord(Head(a)) < Ord(Head(b))

\* ------------------------------------------------------------- normaliser
normalize_name(name) == RStripDots(Lower(Strip(name)))

\* The parts of one record's content as the loop body computes them:
\* [p.strip() for p in content.split() if p.strip()][:4].
content_parts(content) ==
    Take(SelectSeq([i \in 1..Len(Split(content)) |-> Strip(Split(content)[i])],
                   LAMBDA p : p # << >>), 4)

\* One pass of the loop body of normalize_tlsa_records on record r:
\*   "drop"  the record is passed over silently (empty name or content),
\*   "warn"  it is skipped with a warning,
\*   "emit"  NormTLSA(name, content) is appended.
normalize_one(r) ==
    LET name == normalize_name(r.name)
        content == Strip(r.content)
        parts == content_parts(content)
    IN  IF name = << >> \/ content = << >>
        THEN [kind |-> "drop", name |-> name, content |-> content]
        ELSE IF Len(parts) # 4
        THEN [kind |-> "warn", name |-> name, content |-> content]
        ELSE [kind |-> "emit", name |-> name, content |-> Join(parts)]

\* The sort key order: (x.name, x.content), compared as Python tuples.
KeyLeq(x, y) ==
    IF x.name = y.name THEN StrLeq(x.content, y.content) ELSE StrLeq(x.name, y.name)

\* list.sort(key=...): the records in non-decreasing key order (stable;
\* records with equal keys are equal records).
RECURSIVE InsertSorted(_, _)
InsertSorted(x, s) ==
    IF s = << >> THEN << x >>
    ELSE IF KeyLeq(Head(s), x) THEN << Head(s) >> \o InsertSorted(x, Tail(s))
    ELSE << x >> \o s

RECURSIVE SortRecordsFrom(_, _)
SortRecordsFrom(s, acc) ==
    IF s = << >> THEN acc ELSE SortRecordsFrom(Tail(s), InsertSorted(Head(s), acc))

\* The list left in the order of the appends.
SortRecordsUnsorted(s) == s

SortRecords(s) == SortRecordsFrom(s, << >>)

\* The loop of normalize_tlsa_records: out and the warnings written, in order.
RECURSIVE NormalizeLoop(_, _, _)
NormalizeLoop(records, out, warned) ==
    IF records = << >> THEN [out |-> out, warned |-> warned]
    ELSE LET n == normalize_one(Head(records))
             rec == [name |-> n.name, content |-> n.content]
         IN  CASE n.kind = "drop" -> NormalizeLoop(Tail(records), out, warned)
               [] n.kind = "warn" -> NormalizeLoop(Tail(records), out, Append(warned, rec))
               [] OTHER -> NormalizeLoop(Tail(records), Append(out, rec), warned)

\* normalize_tlsa_records(records): the returned list and the warnings.
normalize_tlsa_records(records) ==
    LET r == NormalizeLoop(records, << >>, << >>)
    IN  [out |-> SortRecords(r.out), warned |-> r.warned]

\* tlsa_set(records)
tlsa_set(records) == {<< records[i].name, records[i].content >> : i \in 1..Len(records)}

\* ------------------------------------------------------------- raw inputs
\* Raw names: plain, upper case behind a blank and with a root dot, a blank
\* before the root dot, two trailing dots, absent.
RawNames ==
    { << "a" >>, << " ", "A", "." >>, << "a", " ", "." >>,
      << "a", ".", "." >>, << >> }

\* Raw contents: canonical, padded with blanks and a tab, three tokens,
\* five tokens, a second canonical one, absent.
RawContents ==
    { << "3", " ", "1", " ", "1", " ", "f" >>,
      << " ", "3", "\t", " ", "1", " ", "1", " ", "f", " " >>,
      << "3", " ", "1", " ", "1" >>,
      << "3", " ", "1", " ", "1", " ", "f", " ", "f" >>,
      << "2", " ", "1", " ", "1", " ", "f" >>,
      << >> }

RawRecords == [name : RawNames, content : RawContents]

RECURSIVE SeqsUpTo(_, _)
SeqsUpTo(S, n) ==
    IF n = 0 THEN { << >> }
    ELSE LET shorter == SeqsUpTo(S, n - 1)
         IN  shorter \cup {Append(s, x) : s \in {t \in shorter : Len(t) = n - 1}, x \in S}

\* ---------------------------------------------------------------- integers
DigitChars == << "0", "1", "2", "3", "4", "5", "6", "7", "8", "9" >>

IsDigit(c) == \E i \in 1..Len(DigitChars) : DigitChars[i] = c

DigitVal(c) == (CHOOSE i \in 1..Len(DigitChars) : DigitChars[i] = c) - 1

\* int(s) of Python returns for a string of decimal digits and raises
\* ValueError for the other strings of the alphabet.
IsIntLiteral(s) == s # << >> /\ \A i \in 1..Len(s) : IsDigit(s[i])

RECURSIVE IntOf(_)
IntOf(s) ==
    IF s = << >> THEN 0
    ELSE IntOf(SubSeq(s, 1, Len(s) - 1)) * Len(DigitChars) + DigitVal(s[Len(s)])

\* str(n) of a non-negative int.
RECURSIVE Str(_)
Str(n) ==
    IF n < Len(DigitChars) THEN << DigitChars[n + 1] >>
    ELSE Str(n \div Len(DigitChars)) \o << DigitChars[(n % Len(DigitChars)) + 1] >>

\* s.split(" ", maxsplit): cut at each of the first maxsplit blanks.
RECURSIVE SplitSpaceFrom(_, _, _, _)
SplitSpaceFrom(s, maxsplit, cur, acc) ==
    IF s = << >> THEN Append(acc, cur)
    ELSE IF Head(s) = " " /\ maxsplit > 0
         THEN SplitSpaceFrom(Tail(s), maxsplit - 1, << >>, Append(acc, cur))
         ELSE SplitSpaceFrom(Tail(s), maxsplit, Append(cur, Head(s)), acc)

SplitSpace(s, maxsplit) == SplitSpaceFrom(s, maxsplit, << >>, << >>)

\* ----------------------------------------------------------------- Stalwart
TLSA == << "T", "L", "S", "A" >>

\* stalwart_fetch_tlsa on an answer that http_json returned: the entries of
\* type TLSA (any case) of a data list, normalised; [] when data is no list.
stalwart_fetch_tlsa(resp) ==
    IF resp.kind # "list" THEN << >>
    ELSE normalize_tlsa_records(
             SelectSeq(resp.data, LAMBDA r : Upper(r.type) = TLSA)).out

\* The entries Stalwart's data array is drawn from.
StalwartEntries ==
    { [type |-> TLSA, name |-> << "a" >>,
       content |-> << "3", " ", "1", " ", "1", " ", "f" >>],
      [type |-> << "t", "l", "s", "a" >>, name |-> << " ", "A", "." >>,
       content |-> << " ", "3", "\t", " ", "1", " ", "1", " ", "f", " " >>],
      [type |-> TLSA, name |-> << "b" >>,
       content |-> << "0", "3", " ", "1", " ", "1", " ", "f" >>],
      [type |-> TLSA, name |-> << "b" >>,
       content |-> << "x", " ", "1", " ", "1", " ", "f" >>],
      [type |-> << "A" >>, name |-> << "a" >>,
       content |-> << "1" >>] }

\* Stalwart's answers: a transport failure, an envelope whose data is no
\* list, an envelope with a data list.
StalwartResponses ==
    { [kind |-> "error", data |-> << >>], [kind |-> "nodata", data |-> << >>] }
    \cup {[kind |-> "list", data |-> d] : d \in SeqsUpTo(StalwartEntries, MaxStalwart)}

\* --------------------------------------------------------------- Cloudflare
\* The zone lookup's answers: a transport failure, success false, no zone,
\* a zone without id, one zone, two zones.
ZoneResponses ==
    { [kind |-> "error", success |-> FALSE, result |-> << >>],
      [kind |-> "json", success |-> FALSE, result |-> << >>],
      [kind |-> "json", success |-> TRUE, result |-> << >>],
      [kind |-> "json", success |-> TRUE, result |-> << "" >>],
      [kind |-> "json", success |-> TRUE, result |-> << "z1" >>],
      [kind |-> "json", success |-> TRUE, result |-> << "z1", "z2" >>] }

ZoneUnasked == [kind |-> "unasked", success |-> FALSE, result |-> << >>]

\* cloudflare_get_zone_id on the lookup's answer: the id returned, or raised.
cloudflare_get_zone_id(resp) ==
    IF resp.kind = "error" THEN [raised |-> TRUE, id |-> ""]
    ELSE IF ~resp.success THEN [raised |-> TRUE, id |-> ""]
    ELSE IF resp.result = << >> THEN [raised |-> TRUE, id |-> ""]
    ELSE IF resp.result[1] = "" THEN [raised |-> TRUE, id |-> ""]
    ELSE [raised |-> FALSE, id |-> resp.result[1]]

\* CF_PER_PAGE
per_page == 1

\* The record list's answer for one page: the page's records and total_pages.
cf_page(store, p) ==
    SubSeq(store, (p - 1) * per_page + 1,
           IF p * per_page < Len(store) THEN p * per_page ELSE Len(store))

cf_total_pages(store) == (Len(store) + per_page - 1) \div per_page

\* int(info.get("total_pages") or 1)
total_pages_or_1(n) == IF n = 0 THEN 1 ELSE n

\* The name and the data of the TLSA records Cloudflare holds at the start.
CfShapes ==
    { [name |-> << "a" >>,
       data |-> [usage |-> 3, selector |-> 1, matching_type |-> 1, certificate |-> << "f" >>]],
      [name |-> << "a" >>,
       data |-> [usage |-> 2, selector |-> 1, matching_type |-> 1, certificate |-> << "f" >>]] }

\* A store: the records in list order, the i-th with id i.
CfStores ==
    { [i \in 1..Len(s) |-> [id |-> i, name |-> s[i].name, data |-> s[i].data]] :
          s \in SeqsUpTo(CfShapes, MaxCf) }

\* The four fields of a Cloudflare record as cloudflare_existing_tlsa reads them.
cf_usage(r) == Strip(Str(r.data.usage))
cf_selector(r) == Strip(Str(r.data.selector))
cf_matching(r) == Strip(Str(r.data.matching_type))
cf_cert(r) == Strip(r.data.certificate)

\* not (name and usage and selector and matching and cert and rid): skipped.
\* rid = str(id) is empty for no id that Cloudflare gives; ids count from 1.
cf_accepted(r) ==
    /\ normalize_name(r.name) # << >>
    /\ cf_usage(r) # << >> /\ cf_selector(r) # << >>
    /\ cf_matching(r) # << >> /\ cf_cert(r) # << >>
    /\ r.id # 0

cf_norm(r) ==
    [name |-> normalize_name(r.name),
     content |-> Strip(cf_usage(r) \o << " " >> \o cf_selector(r) \o << " " >>
                       \o cf_matching(r) \o << " " >> \o cf_cert(r))]

cf_key(r) == << cf_norm(r).name, cf_norm(r).content >>

\* [r["id"] for r in records]
IdsOf(records) == [i \in 1..Len(records) |-> records[i].id]

\* ids_by_key with each key's list replaced by its last id.
ids_by_key_last(raw) ==
    LET acc == SelectSeq(raw, cf_accepted)
    IN  [k \in {cf_key(acc[i]) : i \in 1..Len(acc)} |->
            LET ids == IdsOf(SelectSeq(acc, LAMBDA r : cf_key(r) = k))
            IN  << ids[Len(ids)] >>]

\* ids_by_key.setdefault(key, []).append(rid) over the accepted records.
ids_by_key_of(raw) ==
    LET acc == SelectSeq(raw, cf_accepted)
    IN  [k \in {cf_key(acc[i]) : i \in 1..Len(acc)} |->
            IdsOf(SelectSeq(acc, LAMBDA r : cf_key(r) = k))]

\* cloudflare_existing_tlsa on the records listed: (norm, ids_by_key).
cloudflare_existing_tlsa(raw) ==
    LET acc == SelectSeq(raw, cf_accepted)
    IN  [norm |-> SortRecords([i \in 1..Len(acc) |-> cf_norm(acc[i])]),
         ids_by_key |-> ids_by_key_of(raw)]

\* sorted(keys) of a set of (name, content) tuples.
TupleLeq(x, y) == IF x[1] = y[1] THEN StrLeq(x[2], y[2]) ELSE StrLeq(x[1], y[1])

RECURSIVE SortedKeys(_)
SortedKeys(S) ==
    IF S = {} THEN << >>
    ELSE LET m == CHOOSE x \in S : \A y \in S : TupleLeq(x, y)
         IN  << m >> \o SortedKeys(S \ {m})

\* The DELETE calls of the delete loop, in order: for each key of
\* sorted(to_delete), each id of ids_by_key.get(key, []).
RECURSIVE DeleteCalls(_, _)
DeleteCalls(keys, ids) ==
    IF keys = << >> THEN << >>
    ELSE (IF Head(keys) \in DOMAIN ids THEN ids[Head(keys)] ELSE << >>)
         \o DeleteCalls(Tail(keys), ids)

NoData == [usage |-> 0, selector |-> 0, matching_type |-> 0, certificate |-> << >>]

\* cloudflare_add_tlsa up to the request: the payload's name and data, or
\* ValueError raised by the length check or by int().
cloudflare_add_payload(key) ==
    LET parts == SplitSpace(key[2], 3)
    IN  IF Len(parts) # 4
           \/ ~IsIntLiteral(parts[1]) \/ ~IsIntLiteral(parts[2]) \/ ~IsIntLiteral(parts[3])
        THEN [raised |-> TRUE, name |-> key[1], data |-> NoData]
        ELSE [raised |-> FALSE, name |-> key[1],
              data |-> [usage |-> IntOf(parts[1]), selector |-> IntOf(parts[2]),
                        matching_type |-> IntOf(parts[3]), certificate |-> parts[4]]]

\* ------------------------------------------------------ the branches of main
\* The test of line 348 left out.
desired_never_empty(d) == FALSE

\* if not desired (line 348)
desired_is_empty(d) == d = << >>

\* The two lists compared in place of the two sets.
lists_equal(d, e) == d = e

\* desired_set = tlsa_set(desired); existing_set = tlsa_set(existing);
\* if desired_set == existing_set (lines 361-372)
up_to_date(d, e) == tlsa_set(d) = tlsa_set(e)

\* The test of line 389 left out.
dry_run_ignored(flag) == FALSE

\* if args.dry_run (line 389)
dry_run_stops(flag) == flag

\* The answer's success field not looked at.
failure_ignored(success) == FALSE

\* if not resp.get("success"): raise RuntimeError, in cloudflare_delete_record
\* and cloudflare_add_tlsa
raises_on(success) == ~success

\* -------------------------------------------------------------------- state
VARIABLES
    nrecords, nout, nwarned, nout2, npc,    \* the normaliser applied on its own
    dry_run,        \* args.dry_run of the current invocation
    stalwart,       \* Stalwart's answer to GET /api/dns/records/{domain}
    zones,          \* Cloudflare's answer to the zone lookup, fixed when first asked
    list_fault,     \* the page whose list answer is unsuccessful, fixed when first asked
    cf,             \* the TLSA records Cloudflare holds
    next_id,        \* the id Cloudflare gives the next record created
    pc,             \* where main stands
    desired, zone_id, page, raw, existing, ids_by_key,
    to_delete, to_add,
    del_queue,      \* the DELETE calls of the delete loop still to make
    add_queue,      \* the keys of the add loop still to add
    compared,       \* line 372 has been evaluated in this invocation
    reads,          \* the read calls of this invocation, in order
    muts,           \* the mutation calls of this invocation, in order
    report,         \* the message main ended with
    exit_code,      \* main's return value, once pc = "done"
    cf0,            \* what Cloudflare held when this invocation started
    prev            \* the previous invocation: its flag, its reads, its cf0

nvars == << nrecords, nout, nwarned, nout2, npc >>

envvars == << stalwart, zones, list_fault, cf, next_id >>

locals == << desired, zone_id, page, raw, existing, ids_by_key,
             to_delete, to_add, del_queue, add_queue, compared >>

runvars == << dry_run, pc, reads, muts, report, exit_code, cf0, prev >>

vars == << nvars, envvars, locals, runvars >>

NoPrev == [valid |-> FALSE, dry |-> FALSE, reads |-> << >>, cf0 |-> << >>]

\* The normaliser's variables while main runs, and main's while the
\* normaliser is applied on its own.
NormIdle ==
    /\ nrecords = << >> /\ nout = << >> /\ nwarned = << >> /\ nout2 = << >>
    /\ npc = "idle"

\* The locals of main at its entry.
LocalsAtEntry ==
    /\ desired = << >> /\ zone_id = "" /\ page = 1 /\ raw = << >>
    /\ existing = << >> /\ ids_by_key = << >>
    /\ to_delete = {} /\ to_add = {}
    /\ del_queue = << >> /\ add_queue = << >>
    /\ compared = FALSE

MainIdle ==
    /\ dry_run = FALSE
    /\ stalwart = [kind |-> "nodata", data |-> << >>]
    /\ zones = ZoneUnasked
    /\ list_fault = [asked |-> FALSE, at |-> 0]
    /\ cf = << >> /\ next_id = 1 /\ cf0 = << >>
    /\ LocalsAtEntry
    /\ pc = "idle"
    /\ reads = << >> /\ muts = << >> /\ report = "" /\ exit_code = 0
    /\ prev = NoPrev

\* ---------------------------------------------------------------- normaliser
NormInit ==
    /\ nrecords \in SeqsUpTo(RawRecords, MaxRecords)
    /\ nout = << >>
    /\ nwarned = << >>
    /\ nout2 = << >>
    /\ npc = "input"
    /\ MainIdle

\* out = normalize_tlsa_records(records)
Normalize ==
    /\ npc = "input"
    /\ LET r == normalize_tlsa_records(nrecords)
       IN  /\ nout' = r.out
           /\ nwarned' = r.warned
    /\ npc' = "normalized"
    /\ UNCHANGED << nrecords, nout2, envvars, locals, runvars >>

\* normalize_tlsa_records applied to its own output.
Renormalize ==
    /\ npc = "normalized"
    /\ nout2' = normalize_tlsa_records(nout).out
    /\ npc' = "renormalized"
    /\ UNCHANGED << nrecords, nout, nwarned, envvars, locals, runvars >>

NormNext == Normalize \/ Renormalize

SpecNorm == NormInit /\ [][NormNext]_vars

\* ---------------------------------------------------------------------- main
\* main at the entry of its try block (line 327) with the configuration
\* present (lines 328-342): the next step is the Stalwart fetch.
Init ==
    /\ NormIdle
    /\ dry_run \in BOOLEAN
    /\ stalwart \in StalwartResponses
    /\ zones = ZoneUnasked
    /\ list_fault = [asked |-> FALSE, at |-> 0]
    /\ cf \in CfStores
    /\ next_id = Len(cf) + 1
    /\ cf0 = cf
    /\ LocalsAtEntry
    /\ pc = "fetch"
    /\ reads = << >> /\ muts = << >> /\ report = "" /\ exit_code = 0
    /\ prev = NoPrev

\* return code / except Exception: return 1
Finish(code, message) ==
    /\ pc' = "done"
    /\ exit_code' = code
    /\ report' = message

Continue(to) ==
    /\ pc' = to
    /\ UNCHANGED << exit_code, report >>

\* What follows a completed mutation: the next DELETE, the add loop, or the end.
AfterMutation(dq, aq) ==
    IF dq # << >> THEN Continue("delete")
    ELSE IF aq # << >> THEN Continue("add")
    ELSE Finish(0, "completed")

ReadCall(url, p) == [method |-> "GET", url |-> url, page |-> p]

\* desired = stalwart_fetch_tlsa(...); if not desired: return 0
FetchStalwart ==
    /\ pc = "fetch"
    /\ reads' = Append(reads, ReadCall("stalwart_records", 0))
    /\ IF stalwart.kind = "error"
       THEN /\ Finish(1, "error")
            /\ UNCHANGED desired
       ELSE /\ desired' = stalwart_fetch_tlsa(stalwart)
            /\ IF desired_is_empty(desired')
               THEN Finish(0, "no_records")
               ELSE Continue("zone")
    /\ UNCHANGED << nvars, envvars, dry_run, muts, cf0, prev,
                    zone_id, page, raw, existing, ids_by_key,
                    to_delete, to_add, del_queue, add_queue, compared >>

\* zone_id = cloudflare_get_zone_id(domain, cf_key)
GetZone ==
    /\ pc = "zone"
    /\ reads' = Append(reads, ReadCall("zones", 0))
    /\ \E resp \in (IF zones = ZoneUnasked THEN ZoneResponses ELSE {zones}) :
          /\ zones' = resp
          /\ LET z == cloudflare_get_zone_id(resp)
             IN  IF z.raised
                 THEN /\ Finish(1, "error")
                      /\ UNCHANGED zone_id
                 ELSE /\ zone_id' = z.id
                      /\ Continue("list")
    /\ UNCHANGED << nvars, stalwart, list_fault, cf, next_id, dry_run, muts,
                    cf0, prev, desired, page, raw, existing, ids_by_key,
                    to_delete, to_add, del_queue, add_queue, compared >>

\* One pass of the loop of cloudflare_list_dns_records; after the last page,
\* the rest of cloudflare_existing_tlsa.
ListPage ==
    /\ pc = "list"
    /\ reads' = Append(reads, ReadCall("dns_records", page))
    /\ \E f \in (IF list_fault.asked THEN {list_fault}
                 ELSE {[asked |-> TRUE, at |-> p] : p \in 0..MaxFaultPage}) :
          /\ list_fault' = f
          /\ IF f.at = page
             THEN /\ Finish(1, "error")
                  /\ UNCHANGED << page, raw, existing, ids_by_key >>
             ELSE /\ raw' = raw \o cf_page(cf, page)
                  /\ IF page >= total_pages_or_1(cf_total_pages(cf))
                     THEN /\ existing' = cloudflare_existing_tlsa(raw').norm
                          /\ ids_by_key' = cloudflare_existing_tlsa(raw').ids_by_key
                          /\ Continue("plan")
                          /\ UNCHANGED page
                     ELSE /\ page' = page + 1
                          /\ Continue("list")
                          /\ UNCHANGED << existing, ids_by_key >>
    /\ UNCHANGED << nvars, stalwart, zones, cf, next_id, dry_run, muts,
                    cf0, prev, desired, zone_id,
                    to_delete, to_add, del_queue, add_queue, compared >>

\* Lines 361-391: the two sets, the comparison, the plan, the dry-run return.
Plan ==
    /\ pc = "plan"
    /\ compared' = TRUE
    /\ LET desired_set == tlsa_set(desired)
           existing_set == tlsa_set(existing)
       IN  IF up_to_date(desired, existing)
           THEN /\ Finish(0, "up_to_date")
                /\ UNCHANGED << to_delete, to_add, del_queue, add_queue >>
           ELSE /\ to_delete' = existing_set \ desired_set
                /\ to_add' = desired_set \ existing_set
                /\ IF dry_run_stops(dry_run)
                   THEN /\ Finish(0, "dry_run")
                        /\ UNCHANGED << del_queue, add_queue >>
                   ELSE /\ del_queue' = DeleteCalls(SortedKeys(to_delete'), ids_by_key)
                        /\ add_queue' = SortedKeys(to_add')
                        /\ AfterMutation(del_queue', add_queue')
    /\ UNCHANGED << nvars, envvars, dry_run, reads, muts, cf0, prev,
                    desired, zone_id, page, raw, existing, ids_by_key >>

\* One pass of the inner delete loop: cloudflare_delete_record(zone_id, rid).
\* Cloudflare answers success and removes the record, or answers without
\* success and keeps it.
DeleteStep ==
    /\ pc = "delete"
    /\ del_queue # << >>
    /\ \E success \in BOOLEAN :
          LET rid == Head(del_queue)
          IN  /\ success => \E i \in 1..Len(cf) : cf[i].id = rid
              /\ muts' = Append(muts, [method |-> "DELETE", id |-> rid, name |-> << >>,
                                       data |-> NoData, success |-> success])
              /\ cf' = IF success THEN SelectSeq(cf, LAMBDA r : r.id # rid) ELSE cf
              /\ IF raises_on(success)
                 THEN /\ Finish(1, "error")
                      /\ UNCHANGED del_queue
                 ELSE /\ del_queue' = Tail(del_queue)
                      /\ AfterMutation(del_queue', add_queue)
    /\ UNCHANGED << nvars, stalwart, zones, list_fault, next_id, dry_run, reads,
                    cf0, prev, desired, zone_id, page, raw, existing, ids_by_key,
                    to_delete, to_add, add_queue, compared >>

\* One pass of the add loop: cloudflare_add_tlsa(zone_id, cf_key, rec, ttl).
\* Cloudflare answers success and holds the record created from the payload,
\* or answers without success and holds nothing new.
AddStep ==
    /\ pc = "add"
    /\ add_queue # << >>
    /\ LET payload == cloudflare_add_payload(Head(add_queue))
       IN  IF payload.raised
           THEN /\ Finish(1, "error")
                /\ UNCHANGED << muts, cf, next_id, add_queue >>
           ELSE \E success \in BOOLEAN :
                   /\ muts' = Append(muts, [method |-> "POST", id |-> 0,
                                            name |-> payload.name, data |-> payload.data,
                                            success |-> success])
                   /\ cf' = IF success
                            THEN Append(cf, [id |-> next_id, name |-> payload.name,
                                             data |-> payload.data])
                            ELSE cf
                   /\ next_id' = IF success THEN next_id + 1 ELSE next_id
                   /\ IF raises_on(success)
                      THEN /\ Finish(1, "error")
                           /\ UNCHANGED add_queue
                      ELSE /\ add_queue' = Tail(add_queue)
                           /\ AfterMutation(<< >>, add_queue')
    /\ UNCHANGED << nvars, stalwart, zones, list_fault, dry_run, reads,
                    cf0, prev, desired, zone_id, page, raw, existing, ids_by_key,
                    to_delete, to_add, del_queue, compared >>

\* raise SystemExit(main()): the script, once it has ended, is run a second
\* time against the same providers with --dry-run the other way round, so
\* that a dry run and a live run can be compared.
Invoke ==
    /\ pc = "done"
    /\ ~prev.valid
    /\ prev' = [valid |-> TRUE, dry |-> dry_run, reads |-> reads, cf0 |-> cf0]
    /\ dry_run' = ~dry_run
    /\ cf0' = cf
    /\ desired' = << >> /\ zone_id' = "" /\ page' = 1 /\ raw' = << >>
    /\ existing' = << >> /\ ids_by_key' = << >>
    /\ to_delete' = {} /\ to_add' = {}
    /\ del_queue' = << >> /\ add_queue' = << >>
    /\ compared' = FALSE
    /\ pc' = "fetch"
    /\ reads' = << >> /\ muts' = << >> /\ report' = "" /\ exit_code' = 0
    /\ UNCHANGED << nvars, envvars >>

Next ==
    \/ FetchStalwart
    \/ GetZone
    \/ ListPage
    \/ Plan
    \/ DeleteStep
    \/ AddStep
    \/ Invoke

Spec == Init /\ [][Next]_vars

\* ------------------------------------------------- claims on the normaliser
Count(s, x) == Cardinality({i \in 1..Len(s) : s[i] = x})

Emitted(r) == [name |-> normalize_one(r).name, content |-> normalize_one(r).content]

\* C6: normalize_tlsa_records emits a record only for an input whose content
\* splits on whitespace into exactly four tokens; an input that has a name and
\* a content of fewer or more than four tokens is skipped with a warning.
C6_ExactlyFourFields ==
    npc = "normalized" =>
        /\ \A i \in 1..Len(nout) : \E j \in 1..Len(nrecords) :
              /\ Len(Split(nrecords[j].content)) = 4
              /\ nout[i] = [name |-> normalize_name(nrecords[j].name),
                            content |-> Join(Split(nrecords[j].content))]
        /\ \A j \in 1..Len(nrecords) :
              ( /\ normalize_name(nrecords[j].name) # << >>
                /\ Split(nrecords[j].content) # << >>
                /\ Len(Split(nrecords[j].content)) # 4 ) =>
                 \E w \in 1..Len(nwarned) :
                    /\ nwarned[w].name = normalize_name(nrecords[j].name)
                    /\ nwarned[w].content = Strip(nrecords[j].content)

\* C7: normalising the output of normalize_tlsa_records again returns the same
\* names and contents unchanged.
C7_Idempotent == npc = "renormalized" => nout2 = nout

\* C10 as stated: the output is sorted by (name, content) and no (name, content)
\* pair occurs in it more than once.
C10_SortedDeduplicated ==
    npc = "normalized" =>
        /\ \A i \in 1..(Len(nout) - 1) : KeyLeq(nout[i], nout[i + 1])
        /\ \A i, j \in 1..Len(nout) : nout[i] = nout[j] => i = j

\* C10 as amended: the output is in non-decreasing (name, content) order and
\* holds each pair once per accepted input record that normalises to it;
\* the pairs collapse only in tlsa_set.
C10_SortedKeepsDuplicates ==
    npc = "normalized" =>
        /\ \A i \in 1..(Len(nout) - 1) : KeyLeq(nout[i], nout[i + 1])
        /\ \A j \in 1..Len(nrecords) :
              normalize_one(nrecords[j]).kind = "emit" =>
                 Count(nout, Emitted(nrecords[j])) =
                    Cardinality({k \in 1..Len(nrecords) :
                                    /\ normalize_one(nrecords[k]).kind = "emit"
                                    /\ Emitted(nrecords[k]) = Emitted(nrecords[j])})
        /\ Len(nout) = Cardinality({k \in 1..Len(nrecords) :
                                       normalize_one(nrecords[k]).kind = "emit"})

\* Two different raw records that normalise to the same pair are both in the output.
C10_Witness ==
    /\ npc = "normalized"
    /\ Len(nrecords) = 2
    /\ nrecords[1] # nrecords[2]
    /\ Len(nout) = 2
    /\ nout[1] = nout[2]

\* ------------------------------------------------------------ claims on main
StalwartCall == ReadCall("stalwart_records", 0)

\* The (name, content) keys of the records a store holds.
KeysOn(store) == tlsa_set(cloudflare_existing_tlsa(store).norm)

ZoneLookedUp == \E i \in 1..Len(reads) : reads[i].url = "zones"

DeletesOf(id) == {i \in 1..Len(muts) : muts[i].method = "DELETE" /\ muts[i].id = id}

\* C1: when the Stalwart fetch yields an empty desired list, the run returns
\* 0 after the Stalwart GET alone: no zone lookup, no record list, no DELETE,
\* no POST, whatever Cloudflare holds.
C1_EmptyDesiredSafe ==
    (pc # "fetch" /\ stalwart.kind # "error" /\ desired = << >>) =>
        /\ pc = "done"
        /\ exit_code = 0
        /\ muts = << >>
        /\ reads = << StalwartCall >>
        /\ cf = cf0

\* Stalwart answers entries, none of them a usable TLSA record, while
\* Cloudflare holds records.
C1_Witness ==
    /\ pc = "done"
    /\ stalwart.kind = "list"
    /\ stalwart.data # << >>
    /\ desired = << >>
    /\ cf # << >>
    /\ report = "no_records"

C3_Converges ==
    ( /\ pc = "done" /\ ~dry_run /\ compared
      /\ exit_code = 0
      /\ \A i \in 1..Len(muts) : muts[i].success ) =>
        /\ to_add = tlsa_set(desired) \ KeysOn(cf0)
        /\ to_delete = KeysOn(cf0) \ tlsa_set(desired)
        /\ KeysOn(cf) = tlsa_set(desired)

\* C4: when the desired set and the existing set are equal, main makes no
\* DELETE and no POST, reports that the records are up to date and returns 0.
C4_NoOp ==
    (compared /\ tlsa_set(desired) = tlsa_set(existing)) =>
        /\ pc = "done"
        /\ exit_code = 0
        /\ report = "up_to_date"
        /\ muts = << >>
        /\ cf = cf0

\* Equal sets behind lists of two: Cloudflare holds two records.
C4_Witness ==
    /\ compared
    /\ pc = "done"
    /\ tlsa_set(desired) = tlsa_set(existing)
    /\ Len(existing) = 2
    /\ desired # << >>

\* C5: no record whose key is in desired is deleted, and a live run that
\* completes has made exactly one DELETE call for each record id Cloudflare
\* listed whose key is not in desired, the ids sharing one key included.
C5_DuplicateDeletion ==
    /\ \A i \in 1..Len(muts) :
          muts[i].method = "DELETE" =>
             \E j \in 1..Len(cf0) :
                /\ cf0[j].id = muts[i].id
                /\ cf_key(cf0[j]) \notin tlsa_set(desired)
    /\ (pc = "done" /\ report = "completed") =>
          \A j \in 1..Len(cf0) :
             (cf_accepted(cf0[j]) /\ cf_key(cf0[j]) \notin tlsa_set(desired)) =>
                /\ Cardinality(DeletesOf(cf0[j].id)) = 1
                /\ \A i \in DeletesOf(cf0[j].id) : muts[i].success

\* Two records of one key that is not desired, both deleted by a completed run.
C5_Witness ==
    /\ pc = "done" /\ report = "completed"
    /\ Len(cf0) = 2
    /\ cf_key(cf0[1]) = cf_key(cf0[2])
    /\ cf0[1].id # cf0[2].id
    /\ cf_key(cf0[1]) \notin tlsa_set(desired)
    /\ DeletesOf(cf0[1].id) # {} /\ DeletesOf(cf0[2].id) # {}

\* C8: the zone lookup ends the run with exit code 1 and no mutation call
\* unless its answer is successful and holds exactly one zone.
C8_ZoneFailsLoudly ==
    ( /\ ZoneLookedUp
      /\ ~(zones.kind = "json" /\ zones.success /\ Len(zones.result) = 1) ) =>
        /\ pc = "done"
        /\ exit_code = 1
        /\ zone_id = ""
        /\ muts = << >>

SucceededDeletes == {muts[i].id : i \in {k \in 1..Len(muts) :
                                         muts[k].method = "DELETE" /\ muts[k].success}}

\* The name and data of each record of a list, the ids left out.
Shapes(records) ==
    [i \in 1..Len(records) |-> [name |-> records[i].name, data |-> records[i].data]]

SucceededPosts == Shapes(SelectSeq(muts, LAMBDA m : m.method = "POST" /\ m.success))

\* C9: the DELETE calls precede the POST calls; a mutation call that fails is
\* the run's last call and the run returns 1; and Cloudflare holds what it
\* held at the start with exactly the successful calls applied.
C9_AbortsWithoutRollback ==
    /\ \A i \in 1..Len(muts) :
          ~muts[i].success => (i = Len(muts) /\ pc = "done" /\ exit_code = 1)
    /\ \A i, j \in 1..Len(muts) :
          (i < j /\ muts[i].method = "POST") => muts[j].method = "POST"
    /\ LET kept == SelectSeq(cf0, LAMBDA r : r.id \notin SucceededDeletes)
       IN  /\ SubSeq(cf, 1, Len(kept)) = kept
           /\ Shapes(cf) = Shapes(kept) \o SucceededPosts

\* Two deletes applied, then the add fails: the third mutation call.
C9_Witness ==
    /\ pc = "done" /\ exit_code = 1
    /\ Len(muts) = 3
    /\ muts[1].success /\ muts[2].success /\ ~muts[3].success
    /\ muts[3].method = "POST"
    /\ Len(cf0) = 2 /\ cf = << >>

====
